---- MODULE Spec2Model ----
(***************************************************************************)
(* The contacts application: form validation, the handlers of the HTML     *)
(* surface and of the JSON API, and the contacts table they act on.        *)
(*                                                                         *)
(* The repository holds two programs over the same table:                  *)
(*   "lib": src/lib.rs with model.rs, html_views.rs and api.rs;            *)
(*   "bin": src/main.rs, which registers its own handlers (main.rs 68-89). *)
(* A run is a run of one of them; the variable build says which.           *)
(* SpecFlash adds the flash cookie of one client to the handlers, and      *)
(* SpecPool follows concurrent requests through the connection pool.       *)
(*                                                                         *)
(* Text is a tuple of one-character strings, "Ba" is <<"B", "a">>; an      *)
(* Option<T> is a set with at most one element, None is {}.                *)
(***************************************************************************)
EXTENDS Integers, Sequences, FiniteSets, TLC

VARIABLES
    build,      \* "lib" or "bin": the program that serves the requests
    contacts,   \* the contacts table: primary key id |-> the four text columns
    next_id,    \* the next value of the id column's sequence
    req,        \* the request served last
    resp,       \* the response to it
    cookie,     \* the flash cookie the client holds: None or Some(flash)
    displayed,  \* the flash the last response rendered: None or Some(flash)
    phase,      \* request |-> "new", "waiting", "holding", "done"
    held,       \* request |-> the number of pool connections it holds
    available   \* the number of connections the pool can still hand out

vars == <<build, contacts, next_id, req, resp, cookie, displayed, phase, held,
          available>>

----------------------------------------------------------------------------
\* Bounds of the model.

\* Identifiers range over 0..MaxId: path ids, JSON body ids, sequence values.
MaxId == 1

\* The largest identifier of the paging specification, which needs more than
\* one page of contacts.
MaxListId == 11

Ids == 0..MaxId

ListIds == 0..MaxListId

----------------------------------------------------------------------------
\* Option<T>

None == {}

Some(x) == {x}

is_none(o) == o = {}

is_some(o) == o # {}

unwrap(o) == CHOOSE x \in o : TRUE

\* Option<String>::unwrap_or_default
unwrap_or_default(o) == IF o = {} THEN <<>> ELSE unwrap(o)

----------------------------------------------------------------------------
\* Text and SQL pattern matching.

Lower(c) ==
    CASE c = "A" -> "a"
      [] c = "B" -> "b"
      [] c = "E" -> "e"
      [] OTHER -> c

LowerStr(s) == [i \in 1..Len(s) |-> Lower(s[i])]

\* s LIKE p: % matches any run of characters, _ any one character, every
\* other character itself.  The alphabet of the model has no backslash, the
\* escape character of LIKE.
RECURSIVE Like(_, _)
Like(s, p) ==
    IF p = <<>> THEN s = <<>>
    ELSE IF Head(p) = "%"
        THEN \E k \in 0..Len(s) : Like(SubSeq(s, k + 1, Len(s)), Tail(p))
    ELSE IF Head(p) = "_"
        THEN s # <<>> /\ Like(Tail(s), Tail(p))
    ELSE s # <<>> /\ Head(s) = Head(p) /\ Like(Tail(s), Tail(p))

\* s ILIKE p: LIKE without regard to letter case.
ILike(s, p) == Like(LowerStr(s), LowerStr(p))

----------------------------------------------------------------------------
\* Request bodies.

\* An urlencoded form body is the function from the input names it has to
\* their values.  form_get is the Option a field is read as from key k.
form_get(form, k) == IF k \in DOMAIN form THEN Some(form[k]) ELSE None

\* The names of the inputs of new_contact_form and edit_contact_form.
HtmlInputs == {"first_name", "last_name", "phone", "email_address"}

\* ContactAttributes: the four text columns of a row.
ContactAttributes(fn, ln, ph, em) ==
    [first_name |-> fn, last_name |-> ln, phone |-> ph, email_address |-> em]

Fields == {"first_name", "last_name", "phone", "email_address"}

----------------------------------------------------------------------------
\* Validation, lib: PendingContact::Form of model.rs.

\* serde's derived Deserialize for PendingContact::Form: every field an
\* Option read under its renamed key, None when the key is absent.  Keys it
\* does not name are ignored.  phone is read from the key "phonee".
\* A value is kept as sent.  Whether the form format hands an empty value to
\* an Option as Some("") or as None depends on the version of the form crate,
\* which src/ does not fix; the bodies lib is sent in this model have an
\* empty value for email_address alone, where to_valid and the rendering of
\* the form give the same result for both.
Form_deserialize(form) ==
    [ok |-> TRUE,
     pending |->
        [first_name |-> form_get(form, "first_name"),
         last_name |-> form_get(form, "last_name"),
         phone |-> form_get(form, "phonee"),
         email_address |-> form_get(form, "email_address")]]

Form_to_valid_no_email_check(p) ==
    IF /\ is_some(p.first_name)
       /\ is_some(p.last_name)
       /\ is_some(p.phone)
       /\ is_some(p.email_address)
    THEN [ok |-> TRUE,
          contact |-> ContactAttributes(unwrap(p.first_name), unwrap(p.last_name),
                                        unwrap(p.phone), unwrap(p.email_address))]
    ELSE LET keys ==
                 {k \in Fields : is_none(p[k])}
             msg ==
                 [first_name |-> "Missing first name",
                  last_name |-> "Missing last name",
                  phone |-> "Missing phone",
                  email_address |-> "Missing email address"]
         IN [ok |-> FALSE, errors |-> [k \in keys |-> msg[k]]]

\* PendingContact::Form::to_valid.  Errors has one Option<&str> per field:
\* errors is the function from the fields that are Some to their message.
Form_to_valid(p) ==
    IF /\ is_some(p.first_name)
       /\ is_some(p.last_name)
       /\ is_some(p.phone)
       /\ is_some(p.email_address)
       /\ unwrap(p.email_address) # <<>>
    THEN [ok |-> TRUE,
          contact |-> ContactAttributes(unwrap(p.first_name), unwrap(p.last_name),
                                        unwrap(p.phone), unwrap(p.email_address))]
    ELSE LET keys ==
                 {k \in {"first_name"} : is_none(p.first_name)}
                 \cup {k \in {"last_name"} : is_none(p.last_name)}
                 \cup {k \in {"phone"} : is_none(p.phone)}
                 \cup {k \in {"email_address"} :
                         \/ is_none(p.email_address)
                         \/ (is_some(p.email_address) /\ unwrap(p.email_address) = <<>>)}
             msg ==
                 [first_name |-> "Missing first name",
                  last_name |-> "Missing last name",
                  phone |-> "Missing phone",
                  email_address |-> "Missing email address"]
         IN [ok |-> FALSE, errors |-> [k \in keys |-> msg[k]]]

----------------------------------------------------------------------------
\* Validation, bin: PendingContact of main.rs.

\* non_empty_str: the Option that was read, with the empty string dropped.
non_empty_str(o) == {s \in o : s # <<>>}

\* serde's derived Deserialize for PendingContact.  Every field has a
\* deserialize_with and no default, so a body without the field's key fails
\* to deserialize and the Form extractor rejects the request before the
\* handler runs.
main_deserialize(form) ==
    IF HtmlInputs \subseteq DOMAIN form
    THEN [ok |-> TRUE,
          pending |->
             [first_name |-> non_empty_str(Some(form["first_name"])),
              last_name |-> non_empty_str(Some(form["last_name"])),
              phone |-> non_empty_str(Some(form["phone"])),
              email_address |-> non_empty_str(Some(form["email_address"]))]]
    ELSE [ok |-> FALSE]

\* The key of a field in the error map of main.rs.
main_error_key(field) ==
    CASE field = "first_name" -> "first"
      [] field = "last_name" -> "last"
      [] field = "phone" -> "phone"
      [] field = "email_address" -> "email"

\* PendingContact::to_valid of main.rs.  The record it returns carries
\* ContactId::default() as id.
main_to_valid(p) ==
    IF /\ is_some(p.first_name)
       /\ is_some(p.last_name)
       /\ is_some(p.phone)
       /\ is_some(p.email_address)
       /\ unwrap(p.email_address) # <<>>
    THEN [ok |-> TRUE,
          contact |-> [id |-> 0,
                       attributes |->
                          ContactAttributes(unwrap(p.first_name), unwrap(p.last_name),
                                            unwrap(p.phone), unwrap(p.email_address))]]
    ELSE LET keys ==
                 {k \in {"first"} : is_none(p.first_name)}
                 \cup {k \in {"last"} : is_none(p.last_name)}
                 \cup {k \in {"phone"} : is_none(p.phone)}
                 \cup {k \in {"email"} :
                         \/ is_none(p.email_address)
                         \/ (is_some(p.email_address) /\ unwrap(p.email_address) = <<>>)}
             msg ==
                 [first |-> "Missing first name",
                  last |-> "Missing last name",
                  phone |-> "Missing phone",
                  email |-> "Missing email address"]
         IN [ok |-> FALSE, errors |-> [k \in keys |-> msg[k]]]

----------------------------------------------------------------------------
\* The contacts table.

\* The default of the id column: the next value of its sequence.
default_id == next_id

\* Whether an INSERT of a row with this id breaks the primary key.
primary_key_taken(table, id) == id \in DOMAIN table

\* INSERT of a row whose id column has the value id.
insert_row(table, id, attributes) ==
    [i \in DOMAIN table \cup {id} |-> IF i = id THEN attributes ELSE table[i]]

\* An UPDATE that sets the two names and leaves phone and email_address.
update_row_names_only(table, id, attributes) ==
    [i \in DOMAIN table |->
        IF i = id
        THEN ContactAttributes(attributes.first_name, attributes.last_name,
                               table[i].phone, table[i].email_address)
        ELSE table[i]]

\* UPDATE ... WHERE id = $1 with a changeset of the four text columns.  The
\* derived AsChangeset leaves the primary key out of the SET clause.
update_row(table, id, attributes) ==
    [i \in DOMAIN table |-> IF i = id THEN attributes ELSE table[i]]

\* UPDATE ... WHERE id = id with the same changeset: the condition compares
\* the column with itself and holds for every row.
update_every_row(table, attributes) ==
    [i \in DOMAIN table |-> attributes]

\* DELETE ... WHERE id in ids.
delete_rows(table, ids) ==
    [i \in DOMAIN table \ ids |-> table[i]]

\* A row as the handlers load it: Contact { id, attributes }.
Contact(table, id) == [id |-> id, attributes |-> table[id]]

RECURSIVE SortedIds(_)
\* The ids of S in ascending order: ORDER BY id.
SortedIds(S) ==
    IF S = {} THEN <<>>
    ELSE LET m == CHOOSE x \in S : \A y \in S : x <= y
         IN <<m>> \o SortedIds(S \ {m})

Min(a, b) == IF a <= b THEN a ELSE b

----------------------------------------------------------------------------
\* Responses.

\* AppError (lib.rs) and Error (main.rs) as a response.
InternalError ==
    [kind |-> "error", status |-> 500,
     body |-> "An internal error occurred. Please try again later."]

\* The rejection of an extractor: the handler did not run.
Rejection == [kind |-> "rejection", status |-> 422]

\* (flash, Redirect::to(path)): a 303 with the flash cookie set.
Redirect(to, id, level, message) ==
    [kind |-> "redirect", status |-> 303, to |-> to, id |-> id,
     flash |-> [level |-> level, message |-> message]]

\* new_contact_form and edit_contact_form: the form page, every input with
\* the value that was entered (unwrap_or_default), and the errors of the
\* validation.
FormPage(page, id, pending, errors) ==
    [kind |-> "page", status |-> 200, page |-> page, id |-> id,
     values |-> [f \in Fields |-> unwrap_or_default(pending[f])],
     errors |-> errors]

\* Json(contact)
JsonContact(id, attributes) ==
    [kind |-> "json", status |-> 200, contact |-> [id |-> id, attributes |-> attributes]]

\* A plain text body.
Text(status, body) == [kind |-> "text", status |-> status, body |-> body]

----------------------------------------------------------------------------
\* GET /contacts

\* The number of rows of a page: .limit(10).
PageSize == 10

\* A u32 is held as the 32-bit integer with the same bits: a value below
\* 2^31 as itself, a value from 2^31 up as itself less 2^32, the integers of
\* the checker being 32 bits wide.  u32::MAX is the one with every bit set.
u32_MAX == -1

\* page_number + 1 on u32: whether the sum leaves the 32 bits, and the 32
\* bits of the sum.
u32_add_one(n) ==
    [overflow |-> n = u32_MAX,
     wrapped |-> IF n = 2147483647 THEN -2147483647 - 1 ELSE n + 1]

\* The outcomes of an overflowing `+` on u32: a panic that ends the handler
\* before it answers where overflow checks are compiled in (the dev
\* profile), the wrapped sum where they are not (the release profile).  The
\* profile is not part of src/.
OverflowOutcomes == {"panic", "wrap"}

\* The handler panicked: the connection is closed without a response.
Panicked == [kind |-> "panic"]

\* The full list page of contacts: the rows and, when the load returned at
\* least 10 of them, the "Loading More..." element whose hx-get has
\* Pagination { page: page_number + 1 }.
ContactsPage(loaded, page_number, outcome) ==
    IF Cardinality(loaded.rows) >= PageSize
    THEN IF u32_add_one(page_number).overflow /\ outcome = "panic"
         THEN Panicked
         ELSE [kind |-> "page", status |-> 200, page |-> "contacts",
               ordered |-> loaded.ordered, ids |-> loaded.ids, rows |-> loaded.rows,
               load_more |-> Some(u32_add_one(page_number).wrapped)]
    ELSE [kind |-> "page", status |-> 200, page |-> "contacts",
          ordered |-> loaded.ordered, ids |-> loaded.ids, rows |-> loaded.rows,
          load_more |-> None]

\* The rows alone, answered to the search input.
ContactsRows(loaded) ==
    [kind |-> "fragment", status |-> 200, page |-> "contacts",
     ordered |-> loaded.ordered, ids |-> loaded.ids, rows |-> loaded.rows,
     load_more |-> None]

\* The rows GET /contacts loads.  With a query: the rows whose first or last
\* name matches q% under ILIKE, all of them, in no stated order.  Without:
\* ORDER BY id LIMIT 10 OFFSET page_number, the offset a u32 widened to
\* i64; one from 2^31 up is past every row a table of the model has.
contacts_load(table, query, page_number) ==
    IF is_some(query)
    THEN LET pattern == unwrap(query) \o <<"%">>
             hit == {i \in DOMAIN table :
                        \/ ILike(table[i].first_name, pattern)
                        \/ ILike(table[i].last_name, pattern)}
         IN [ordered |-> FALSE, ids |-> <<>>, rows |-> {Contact(table, i) : i \in hit}]
    ELSE LET sorted == SortedIds(DOMAIN table)
             ids == IF page_number < 0
                    THEN <<>>
                    ELSE SubSeq(sorted, page_number + 1,
                                Min(page_number + PageSize, Len(sorted)))
         IN [ordered |-> TRUE, ids |-> ids,
             rows |-> {Contact(table, ids[k]) : k \in 1..Len(ids)}]

\* contacts with the fragment answered to every request that carries an
\* HX-Trigger header, whatever its value.
contacts_get_any_trigger(query, page, trigger) ==
    LET page_number == IF is_none(page) THEN 0 ELSE unwrap(page)
        loaded == contacts_load(contacts, query, page_number)
    IN /\ req' = [handler |-> "contacts", query |-> query, page |-> page,
                  trigger |-> trigger]
       /\ \E outcome \in OverflowOutcomes :
             resp' = IF is_some(trigger)
                     THEN ContactsRows(loaded)
                     ELSE ContactsPage(loaded, page_number, outcome)
       /\ UNCHANGED <<build, contacts, next_id>>

\* contacts: the rows alone when HX-Trigger is "search", the full page
\* otherwise, the page rendered after the early return of the rows.
contacts_get(query, page, trigger) ==
    LET page_number == IF is_none(page) THEN 0 ELSE unwrap(page)
        loaded == contacts_load(contacts, query, page_number)
    IN /\ req' = [handler |-> "contacts", query |-> query, page |-> page,
                  trigger |-> trigger]
       /\ \E outcome \in OverflowOutcomes :
             resp' = IF trigger = Some("search")
                     THEN ContactsRows(loaded)
                     ELSE ContactsPage(loaded, page_number, outcome)
       /\ UNCHANGED <<build, contacts, next_id>>

----------------------------------------------------------------------------
\* POST /contacts/new and POST /contacts/:id/edit, lib (html_views.rs).

\* contacts_new_post: the form again when validation fails; otherwise one
\* INSERT of the four columns, the id left to the sequence, and a redirect
\* to the list.
contacts_new_post(form) ==
    /\ build = "lib"
    /\ req' = [handler |-> "contacts_new_post", form |-> form]
    /\ LET pending_contact == Form_deserialize(form).pending
           contact == Form_to_valid(pending_contact)
       IN IF ~contact.ok
          THEN /\ resp' = FormPage("new_contact_form", None, pending_contact,
                                   contact.errors)
               /\ UNCHANGED <<contacts, next_id>>
          ELSE /\ contacts' = insert_row(contacts, default_id, contact.contact)
               /\ next_id' = next_id + 1
               /\ resp' = Redirect("/contacts", None, "success",
                                   "Created a new contact!")
    /\ UNCHANGED build

contacts_edit_post_writes_first(id, form) ==
    /\ build = "lib"
    /\ req' = [handler |-> "contacts_edit_post", id |-> id, form |-> form]
    /\ LET pending == Form_deserialize(form).pending
           contact == Form_to_valid(pending)
       IN /\ contacts' = update_row(contacts, id,
                 ContactAttributes(unwrap_or_default(pending.first_name),
                                   unwrap_or_default(pending.last_name),
                                   unwrap_or_default(pending.phone),
                                   unwrap_or_default(pending.email_address)))
          /\ resp' = IF ~contact.ok
                     THEN FormPage("edit_contact_form", Some(id), pending,
                                   contact.errors)
                     ELSE Redirect("/contacts/:id", Some(id), "success",
                                   "Updated contact!")
    /\ UNCHANGED <<build, next_id>>

\* contacts_edit_post: the form again when validation fails; otherwise one
\* UPDATE of the row with the path's id, whose count of rows is not looked
\* at, and a redirect to the view page.
contacts_edit_post(id, form) ==
    /\ build = "lib"
    /\ req' = [handler |-> "contacts_edit_post", id |-> id, form |-> form]
    /\ LET pending == Form_deserialize(form).pending
           contact == Form_to_valid(pending)
       IN IF ~contact.ok
          THEN /\ resp' = FormPage("edit_contact_form", Some(id), pending,
                                   contact.errors)
               /\ UNCHANGED contacts
          ELSE /\ contacts' = update_row(contacts, id, contact.contact)
               /\ resp' = Redirect("/contacts/:id", Some(id), "success",
                                   "Updated contact!")
    /\ UNCHANGED <<build, next_id>>

----------------------------------------------------------------------------
\* POST /contacts/new and POST /contacts/:id/edit, bin (main.rs).

\* contacts_new_post of main.rs.  Contact derives Insertable with its id
\* field, so the INSERT names the id column and gives it the id of the
\* record to_valid built; a row with that primary key makes it fail.
main_contacts_new_post(form) ==
    /\ build = "bin"
    /\ req' = [handler |-> "contacts_new_post", form |-> form]
    /\ LET de == main_deserialize(form)
       IN IF ~de.ok
          THEN /\ resp' = Rejection
               /\ UNCHANGED contacts
          ELSE LET contact == main_to_valid(de.pending)
               IN IF ~contact.ok
                  THEN /\ resp' = FormPage("new_contact_form", None, de.pending,
                                           contact.errors)
                       /\ UNCHANGED contacts
                  ELSE IF primary_key_taken(contacts, contact.contact.id)
                  THEN /\ resp' = InternalError
                       /\ UNCHANGED contacts
                  ELSE /\ contacts' = insert_row(contacts, contact.contact.id,
                                                 contact.contact.attributes)
                       /\ resp' = Redirect("/contacts", None, "success",
                                           "Created a new contact!")
    /\ UNCHANGED <<build, next_id>>

\* contacts_edit_post of main.rs.  Contact derives AsChangeset: the SET
\* clause has the four text columns and not the primary key.  The closure
\* imports contacts::dsl::* and then reads `id`: inside it the name is the
\* column contacts::id, which the glob brings into the closure's block, not
\* the path parameter of the handler (the closure is not `move`, and a
\* borrow of the parameter would not be 'static).  The statement is
\* UPDATE contacts SET .. WHERE id = id.
main_contacts_edit_post(id, form) ==
    /\ build = "bin"
    /\ req' = [handler |-> "contacts_edit_post", id |-> id, form |-> form]
    /\ LET de == main_deserialize(form)
       IN IF ~de.ok
          THEN /\ resp' = Rejection
               /\ UNCHANGED contacts
          ELSE LET contact == main_to_valid(de.pending)
               IN IF ~contact.ok
                  THEN /\ resp' = FormPage("edit_contact_form", Some(id), de.pending,
                                           contact.errors)
                       /\ UNCHANGED contacts
                  ELSE /\ contacts' = update_every_row(contacts,
                                                       contact.contact.attributes)
                       /\ resp' = Redirect("/contacts/:id", Some(id), "success",
                                           "Updated contact!")
    /\ UNCHANGED <<build, next_id>>

----------------------------------------------------------------------------
\* DELETE /contacts/:id and DELETE /contacts.

\* contacts_delete deleting only when the delete button triggered the
\* request.
contacts_delete_on_button_only(contact_id, trigger) ==
    /\ req' = [handler |-> "contacts_delete", id |-> contact_id, trigger |-> trigger]
    /\ contacts' = IF trigger = Some("delete-btn")
                   THEN delete_rows(contacts, {contact_id})
                   ELSE contacts
    /\ resp' = IF trigger = Some("delete-btn")
               THEN Redirect("/contacts", None, "success",
                             IF build = "lib" THEN "Deleted contact, yo!"
                             ELSE "Deleted contact!")
               ELSE Text(200, "")
    /\ UNCHANGED <<build, next_id>>

\* contacts_delete: one DELETE by primary key, then a redirect with a flash
\* when HX-Trigger is "delete-btn" and an empty body otherwise.
contacts_delete(contact_id, trigger) ==
    /\ req' = [handler |-> "contacts_delete", id |-> contact_id, trigger |-> trigger]
    /\ contacts' = delete_rows(contacts, {contact_id})
    /\ resp' = IF trigger = Some("delete-btn")
               THEN Redirect("/contacts", None, "success",
                             IF build = "lib" THEN "Deleted contact, yo!"
                             ELSE "Deleted contact!")
               ELSE Text(200, "")
    /\ UNCHANGED <<build, next_id>>

\* contacts_delete_all looking at the number of rows the DELETE matched: an
\* error when it matched none.
contacts_delete_all_counts_rows(selected_contact_ids) ==
    /\ req' = [handler |-> "contacts_delete_all", ids |-> selected_contact_ids]
    /\ contacts' = delete_rows(contacts, selected_contact_ids)
    /\ resp' = IF selected_contact_ids \cap DOMAIN contacts = {}
               THEN InternalError
               ELSE Redirect("/contacts", None, "success", "Deleted contacts!")
    /\ UNCHANGED <<build, next_id>>

\* contacts_delete_all deleting the smallest of the selected identifiers
\* alone.
contacts_delete_all_first_only(selected_contact_ids) ==
    /\ req' = [handler |-> "contacts_delete_all", ids |-> selected_contact_ids]
    /\ contacts' = delete_rows(contacts,
                               {i \in selected_contact_ids :
                                   \A j \in selected_contact_ids : i <= j})
    /\ resp' = Redirect("/contacts", None, "success", "Deleted contacts!")
    /\ UNCHANGED <<build, next_id>>

\* contacts_delete_all: one DELETE of the rows whose id is among
\* selected_contact_ids, then a redirect with a flash.
contacts_delete_all(selected_contact_ids) ==
    /\ req' = [handler |-> "contacts_delete_all", ids |-> selected_contact_ids]
    /\ contacts' = delete_rows(contacts, selected_contact_ids)
    /\ resp' = Redirect("/contacts", None, "success", "Deleted contacts!")
    /\ UNCHANGED <<build, next_id>>

----------------------------------------------------------------------------
\* The JSON API, /api/v1.

\* The body of POST /api/v1/contacts in lib: the four text columns.
NewContact(attributes) == attributes

\* new_contact of api.rs: one INSERT of the body, the id left to the
\* sequence; the row that was inserted is the answer.
new_contact(body) ==
    /\ build = "lib"
    /\ req' = [handler |-> "new_contact", body |-> body]
    /\ contacts' = insert_row(contacts, default_id, NewContact(body))
    /\ next_id' = next_id + 1
    /\ resp' = JsonContact(default_id, NewContact(body))
    /\ UNCHANGED build

\* api::new_contact of main.rs: the body is a Contact, id included, and the
\* INSERT names the id column with the body's id.
main_new_contact(body) ==
    /\ build = "bin"
    /\ req' = [handler |-> "new_contact", body |-> body]
    /\ IF primary_key_taken(contacts, body.id)
       THEN /\ resp' = InternalError
            /\ UNCHANGED contacts
       ELSE /\ contacts' = insert_row(contacts, body.id, body.attributes)
            /\ resp' = JsonContact(body.id, body.attributes)
    /\ UNCHANGED <<build, next_id>>

update_contact_by_body_id(contact_id, body) ==
    /\ req' = [handler |-> "update_contact", id |-> contact_id, body |-> body]
    /\ IF contact_id \in DOMAIN contacts
       THEN /\ contacts' = insert_row(delete_rows(contacts, {contact_id}),
                                      body.id, body.attributes)
            /\ resp' = JsonContact(body.id, body.attributes)
       ELSE /\ resp' = InternalError
            /\ UNCHANGED contacts
    /\ UNCHANGED <<build, next_id>>

\* update_contact: one UPDATE of the row with the path's id from the body's
\* changeset, which has no id; get_result fails with NotFound when no row
\* comes back.
update_contact(contact_id, body) ==
    /\ req' = [handler |-> "update_contact", id |-> contact_id, body |-> body]
    /\ IF contact_id \in DOMAIN contacts
       THEN /\ contacts' = update_row(contacts, contact_id, body.attributes)
            /\ resp' = JsonContact(contact_id, body.attributes)
       ELSE /\ resp' = InternalError
            /\ UNCHANGED contacts
    /\ UNCHANGED <<build, next_id>>

\* delete_contact answering 200 without the DELETE.
delete_contact_without_delete(contact_id) ==
    /\ req' = [handler |-> "delete_contact", id |-> contact_id]
    /\ resp' = Text(200, "Successfully deleted")
    /\ UNCHANGED <<build, contacts, next_id>>

\* delete_contact: one DELETE by primary key; 200 whatever it matched.
delete_contact(contact_id) ==
    /\ req' = [handler |-> "delete_contact", id |-> contact_id]
    /\ contacts' = delete_rows(contacts, {contact_id})
    /\ resp' = Text(200, "Successfully deleted")
    /\ UNCHANGED <<build, next_id>>

----------------------------------------------------------------------------
\* Failures of the pool and of the database.

\* What a request meets on its way to the database: nothing, pool.get()
\* failing (Pool), the statement failing (Diesel), interact failing
\* (Deadpool / InteractError).
Faults == {"none", "pool", "diesel", "interact"}

\* The handlers that hand every such failure to the caller with `?`.
Propagating ==
    {"contacts", "contacts_count", "contacts_new_post", "contacts_edit_post",
     "contacts_delete", "contacts_delete_all", "contacts_email_get",
     "get_contacts", "get_contact", "update_contact", "delete_contact",
     "new_contact"}

\* A request to one of those handlers that met a failure at pool.get() or
\* at interact: `?` returns the error, which is answered as AppError.  The
\* one statement of the handler did not take effect.
question_mark(handler, fault) ==
    /\ req' = [handler |-> "failed", route |-> handler, fault |-> fault]
    /\ resp' = InternalError
    /\ UNCHANGED <<build, contacts, next_id>>

----------------------------------------------------------------------------
\* Retrieval: GET /contacts/:id, GET /contacts/:id/edit, GET /contacts/count,
\* GET /api/v1/contacts and GET /api/v1/contacts/:id.

\* find_contact: Err for a failure of the pool, of interact or of the
\* statement, and for no row (first() gives diesel's NotFound error).
find_contact(table, contact_id, fault) ==
    IF fault = "pool" THEN [ok |-> FALSE, error |-> "Pool"]
    ELSE IF fault = "interact" THEN [ok |-> FALSE, error |-> "Deadpool"]
    ELSE IF fault = "diesel" THEN [ok |-> FALSE, error |-> "Diesel"]
    ELSE IF contact_id \notin DOMAIN table
    THEN [ok |-> FALSE, error |-> "Diesel"]
    ELSE [ok |-> TRUE, contact |-> Contact(table, contact_id)]

\* From<Contact> for the pending contact: every field Some.
PendingContact_from(contact) ==
    [f \in Fields |-> Some(contact.attributes[f])]

\* The view page of a contact.
ViewPage(contact) ==
    [kind |-> "page", status |-> 200, page |-> "contact",
     id |-> Some(contact.id), contact |-> contact]

\* What contacts_view and contacts_edit_get answer to every Err of
\* find_contact.
NotFoundRedirect == Redirect("/contacts", None, "warning", "Could not find contact")

\* contacts_view: the page of the contact, or the redirect when find_contact
\* gave an Err, whichever it was.
contacts_view(id, fault) ==
    /\ req' = [handler |-> "contacts_view", id |-> id, fault |-> fault]
    /\ LET contact == find_contact(contacts, id, fault)
       IN resp' = IF contact.ok THEN ViewPage(contact.contact) ELSE NotFoundRedirect
    /\ UNCHANGED <<build, contacts, next_id>>

\* contacts_edit_get: the edit form filled with the contact and no errors, or
\* the redirect when find_contact gave an Err.
contacts_edit_get(id, fault) ==
    /\ req' = [handler |-> "contacts_edit_get", id |-> id, fault |-> fault]
    /\ LET contact == find_contact(contacts, id, fault)
       IN resp' = IF ~contact.ok
                  THEN NotFoundRedirect
                  ELSE FormPage("edit_contact_form", Some(id),
                                PendingContact_from(contact.contact), <<>>)
    /\ UNCHANGED <<build, contacts, next_id>>

\* contacts_count: SELECT COUNT(*).
contacts_count ==
    /\ req' = [handler |-> "contacts_count"]
    /\ resp' = [kind |-> "count", status |-> 200,
                count |-> Cardinality(DOMAIN contacts)]
    /\ UNCHANGED <<build, contacts, next_id>>

\* get_contacts of the API: every row.
get_contacts ==
    /\ req' = [handler |-> "get_contacts"]
    /\ resp' = [kind |-> "json_list", status |-> 200,
                rows |-> {Contact(contacts, i) : i \in DOMAIN contacts}]
    /\ UNCHANGED <<build, contacts, next_id>>

\* get_contact of the API without the lookup: every identifier is answered
\* as found, with the columns of some contact.
get_contact_always_found(contact_id) ==
    /\ req' = [handler |-> "get_contact", id |-> contact_id]
    /\ \E i \in DOMAIN contacts : resp' = JsonContact(contact_id, contacts[i])
    /\ UNCHANGED <<build, contacts, next_id>>

\* get_contact of the API: first().optional() makes no row a None, answered
\* 404; the contact as JSON otherwise.
get_contact(contact_id) ==
    /\ req' = [handler |-> "get_contact", id |-> contact_id]
    /\ resp' = IF contact_id \in DOMAIN contacts
               THEN JsonContact(contact_id, contacts[contact_id])
               ELSE Text(404, "Could not find contact")
    /\ UNCHANGED <<build, contacts, next_id>>

----------------------------------------------------------------------------
\* GET /contacts/:id/email

\* contacts_email_get leaving the contact of the path out of the count.
contacts_email_get_excluding_self(id, email_address) ==
    LET email == unwrap_or_default(email_address)
        contact_count ==
            Cardinality({i \in DOMAIN contacts \ {id} :
                            Like(contacts[i].email_address, email)})
    IN /\ req' = [handler |-> "contacts_email_get", id |-> id,
                  email_address |-> email_address]
       /\ resp' = IF email = <<>> THEN Text(200, "Email cannot be empty")
                  ELSE IF contact_count = 0 THEN Text(200, "")
                  ELSE Text(200, "Email must be unique")
       /\ UNCHANGED <<build, contacts, next_id>>

\* contacts_email_get: the path's id is not looked at.  An absent or empty
\* email_address is answered at once; otherwise the rows whose
\* email_address is LIKE the candidate are counted, the candidate being the
\* pattern.
contacts_email_get(id, email_address) ==
    LET email == unwrap_or_default(email_address)
        contact_count ==
            Cardinality({i \in DOMAIN contacts : Like(contacts[i].email_address, email)})
    IN /\ req' = [handler |-> "contacts_email_get", id |-> id,
                  email_address |-> email_address]
       /\ resp' = IF email = <<>> THEN Text(200, "Email cannot be empty")
                  ELSE IF contact_count = 0 THEN Text(200, "")
                  ELSE Text(200, "Email must be unique")
       /\ UNCHANGED <<build, contacts, next_id>>

----------------------------------------------------------------------------
\* The requests of the model.

Builds == {"lib", "bin"}

\* The largest page number a request asks for.
MaxPage == 1

Ba == <<"B", "a">>

ab == <<"a", "b">>

\* The bodies clients post to the forms of lib: the inputs of the rendered
\* form, the same with a "phonee" beside them, and bodies with an empty or a
\* missing email_address.
LibForms ==
    {[first_name |-> Ba, last_name |-> Ba, phone |-> <<"1">>, email_address |-> <<"e">>],
     [first_name |-> Ba, last_name |-> Ba, phone |-> <<"1">>, phonee |-> <<"1">>,
      email_address |-> <<"e">>],
     [first_name |-> Ba, last_name |-> ab, phone |-> <<"1">>, phonee |-> <<"1">>,
      email_address |-> <<"e">>],
     [first_name |-> Ba, last_name |-> Ba, phone |-> <<"1">>, phonee |-> <<"1">>,
      email_address |-> <<>>],
     [first_name |-> Ba, last_name |-> Ba, phone |-> <<"1">>, phonee |-> <<"1">>]}

\* The bodies clients post to the forms of bin: those, and one with an empty
\* first_name.
BinForms ==
    LibForms \cup
    {[first_name |-> <<>>, last_name |-> Ba, phone |-> <<"1">>, phonee |-> <<"1">>,
      email_address |-> <<"e">>]}

\* The text columns of the JSON bodies.
JsonAttributes ==
    {ContactAttributes(Ba, Ba, <<"1">>, <<"e">>),
     ContactAttributes(ab, Ba, <<>>, <<"e">>)}

\* Json<Contact>: an id and the four text columns.
JsonContacts == [id : Ids, attributes : JsonAttributes]

\* q: absent, a letter, the wildcard of LIKE.
Queries == {None, Some(<<"a">>), Some(<<"b">>), Some(<<"%">>)}

Pages == {None} \cup {Some(n) : n \in 0..MaxPage}

\* HX-Trigger: absent, the search input, another element.
ListTriggers == {None, Some("search"), Some("delete-btn")}

\* HX-Trigger: absent, the delete button, another element.
DeleteTriggers == {None, Some("delete-btn"), Some("search")}

\* The email_address of the probe: absent, empty, the address the contacts
\* of the model have, another one, and the two wildcards of LIKE.
Emails ==
    {None, Some(<<>>), Some(<<"e">>), Some(<<"x">>), Some(<<"%">>), Some(<<"_">>)}

NoRequest == [handler |-> "none"]

NoResponse == [kind |-> "none"]

----------------------------------------------------------------------------
\* The client's cookie and the pool, before any request.

\* Pool::builder(manager).max_size(8).
max_size == 8

\* The requests the model has in flight together: one more than the pool
\* has connections.
MaxRequests == 9

Requests == 1..MaxRequests

\* No flash cookie, nothing rendered.
InitClient ==
    /\ cookie = None
    /\ displayed = None

\* No request has arrived; every connection of the pool is free.
InitPool ==
    /\ phase = [r \in Requests |-> "new"]
    /\ held = [r \in Requests |-> 0]
    /\ available = max_size

\* Spec, SpecValid and SpecList follow the table and the responses.  The
\* cookie is followed by SpecFlash, the pool by SpecPool.
client_and_pool_aside == UNCHANGED <<cookie, displayed, phase, held, available>>

----------------------------------------------------------------------------
\* The application: any request after any other, on an empty table.

Init ==
    /\ build \in Builds
    /\ contacts = <<>>
    /\ next_id = 1
    /\ req = NoRequest
    /\ resp = NoResponse
    /\ InitClient
    /\ InitPool

Next ==
    \/ \E form \in LibForms : next_id <= MaxId /\ contacts_new_post(form) /\ client_and_pool_aside
    \/ \E form \in BinForms : main_contacts_new_post(form) /\ client_and_pool_aside
    \/ \E id \in Ids, form \in LibForms : contacts_edit_post(id, form) /\ client_and_pool_aside
    \/ \E id \in Ids, form \in BinForms : main_contacts_edit_post(id, form) /\ client_and_pool_aside
    \/ \E id \in Ids, t \in DeleteTriggers : contacts_delete(id, t) /\ client_and_pool_aside
    \/ \E ids \in SUBSET Ids : contacts_delete_all(ids) /\ client_and_pool_aside
    \/ \E body \in JsonAttributes : next_id <= MaxId /\ new_contact(body) /\ client_and_pool_aside
    \/ \E body \in JsonContacts : main_new_contact(body) /\ client_and_pool_aside
    \/ \E id \in Ids, body \in JsonContacts : update_contact(id, body) /\ client_and_pool_aside
    \/ \E id \in Ids : delete_contact(id) /\ client_and_pool_aside
    \/ \E q \in Queries, p \in Pages, t \in ListTriggers : contacts_get(q, p, t) /\ client_and_pool_aside
    \/ \E id \in Ids, fault \in Faults : contacts_view(id, fault) /\ client_and_pool_aside
    \/ \E id \in Ids, fault \in Faults : contacts_edit_get(id, fault) /\ client_and_pool_aside
    \/ contacts_count /\ client_and_pool_aside
    \/ get_contacts /\ client_and_pool_aside
    \/ \E id \in Ids : get_contact(id) /\ client_and_pool_aside
    \/ \E id \in Ids, email \in Emails : contacts_email_get(id, email) /\ client_and_pool_aside
    \/ \E h \in Propagating, fault \in Faults \ {"none"} : question_mark(h, fault) /\ client_and_pool_aside

Spec == Init /\ [][Next]_vars

----------------------------------------------------------------------------
\* Validation alone: to_valid on every record of Options over two values.

FieldValues == {<<>>, Ba}

\* What the deserializer of the form format reads for the four fields.
PendingInputs == [Fields -> {None} \cup {Some(v) : v \in FieldValues}]

InitValid ==
    /\ build \in Builds
    /\ contacts = <<>>
    /\ next_id = 1
    /\ req \in {[handler |-> "to_valid", input |-> o] : o \in PendingInputs}
    /\ resp = NoResponse
    /\ InitClient
    /\ InitPool

\* PendingContact::Form of model.rs, whose fields hold what was read, and
\* its to_valid.
Form_validate ==
    /\ build = "lib"
    /\ resp = NoResponse
    /\ resp' = [kind |-> "to_valid",
                pending |-> req.input,
                result |-> Form_to_valid(req.input)]
    /\ UNCHANGED <<build, contacts, next_id, req>>

\* PendingContact of main.rs, whose fields hold what was read after
\* non_empty_str, and its to_valid.
main_validate ==
    /\ build = "bin"
    /\ resp = NoResponse
    /\ LET pending == [f \in Fields |-> non_empty_str(req.input[f])]
       IN resp' = [kind |-> "to_valid",
                   pending |-> pending,
                   result |-> main_to_valid(pending)]
    /\ UNCHANGED <<build, contacts, next_id, req>>

NextValid ==
    \/ Form_validate /\ client_and_pool_aside
    \/ main_validate /\ client_and_pool_aside

SpecValid == InitValid /\ [][NextValid]_vars

----------------------------------------------------------------------------
\* Paging: JSON creates of one contact and GET /contacts, with room for more
\* than one page.  The handler of GET /contacts is the same code in both
\* programs (html_views.rs 73-113, main.rs 320-360); the rows are created
\* through lib, whose ids come from the sequence.

ListAttributes == ContactAttributes(Ba, ab, <<"1">>, <<"e">>)

ListQueries == {None, Some(<<>>), Some(<<"b">>)}

InitList ==
    /\ build = "lib"
    /\ contacts = <<>>
    /\ next_id = 1
    /\ req = NoRequest
    /\ resp = NoResponse
    /\ InitClient
    /\ InitPool

\* page: absent, the first pages, the largest u32.
ListPages == Pages \cup {Some(u32_MAX)}

NextList ==
    \/ next_id <= MaxListId /\ new_contact(ListAttributes) /\ client_and_pool_aside
    \/ \E q \in ListQueries, p \in ListPages : contacts_get(q, p, None) /\ client_and_pool_aside

SpecList == InitList /\ [][NextList]_vars

----------------------------------------------------------------------------
\* The connection pool under concurrent requests.  A handler that uses the
\* database calls state.db_pool.get().await once, runs one closure through
\* interact on the connection it got, and drops the connection when the
\* binding goes out of scope, before it answers.  Requests are numbered in
\* the order in which they arrive.

\* The requests before r have arrived.
arrived_before(r) == \A q \in Requests : q < r => phase[q] # "new"

\* The requests that called pool.get() before r are served: the semaphore
\* of the pool hands out its permits in the order of the calls.
first_in_line(r) == \A q \in Requests : q < r => phase[q] # "waiting"

\* interact returning without the connection going back to the pool.
interact_keeping_connection(r) ==
    /\ phase[r] = "holding"
    /\ phase' = [phase EXCEPT ![r] = "done"]
    /\ UNCHANGED <<held, available>>
    /\ UNCHANGED <<build, contacts, next_id, req, resp, cookie, displayed>>

\* pool.get() of a handler that takes a second connection while it has one.
db_pool_get_twice(r) ==
    /\ phase[r] = "waiting"
    /\ available > 0
    /\ first_in_line(r)
    /\ phase' = [phase EXCEPT ![r] = IF held[r] = 0 THEN "waiting" ELSE "holding"]
    /\ held' = [held EXCEPT ![r] = held[r] + 1]
    /\ available' = available - 1
    /\ UNCHANGED <<build, contacts, next_id, req, resp, cookie, displayed>>

\* A handler that answers without the database: GET /contacts/new, and a
\* submission whose validation fails (the early return before pool.get()).
respond_without_database(r) ==
    /\ phase[r] = "new"
    /\ arrived_before(r)
    /\ phase' = [phase EXCEPT ![r] = "done"]
    /\ UNCHANGED <<held, available>>
    /\ UNCHANGED <<build, contacts, next_id, req, resp, cookie, displayed>>

\* state.db_pool.get().await: the handler asks the pool for a connection
\* and waits for it.  No timeout is configured.
db_pool_get_await(r) ==
    /\ phase[r] = "new"
    /\ arrived_before(r)
    /\ phase' = [phase EXCEPT ![r] = "waiting"]
    /\ UNCHANGED <<held, available>>
    /\ UNCHANGED <<build, contacts, next_id, req, resp, cookie, displayed>>

\* pool.get() returns a connection: one of the max_size is taken.
db_pool_get(r) ==
    /\ phase[r] = "waiting"
    /\ available > 0
    /\ first_in_line(r)
    /\ phase' = [phase EXCEPT ![r] = "holding"]
    /\ held' = [held EXCEPT ![r] = held[r] + 1]
    /\ available' = available - 1
    /\ UNCHANGED <<build, contacts, next_id, req, resp, cookie, displayed>>

\* pool.get() returns Err (the connection could not be made): `?` turns it
\* into the 500, the handler has no connection.
db_pool_get_fails(r) ==
    /\ phase[r] = "waiting"
    /\ available > 0
    /\ first_in_line(r)
    /\ phase' = [phase EXCEPT ![r] = "done"]
    /\ UNCHANGED <<held, available>>
    /\ UNCHANGED <<build, contacts, next_id, req, resp, cookie, displayed>>

\* connection.interact(..).await?? runs the statement; whether it returns
\* Ok or Err, the connection is dropped at the end of its scope and goes
\* back to the pool, and the handler answers: the response or the 500.
interact(r) ==
    /\ phase[r] = "holding"
    /\ phase' = [phase EXCEPT ![r] = "done"]
    /\ held' = [held EXCEPT ![r] = held[r] - 1]
    /\ available' = available + 1
    /\ UNCHANGED <<build, contacts, next_id, req, resp, cookie, displayed>>

NextPool ==
    \/ \E r \in Requests : respond_without_database(r)
    \/ \E r \in Requests : db_pool_get_await(r)
    \/ \E r \in Requests : db_pool_get(r)
    \/ \E r \in Requests : db_pool_get_fails(r)
    \/ \E r \in Requests : interact(r)

SpecPool == Init /\ [][NextPool]_vars

\* The tokio runtime polls every task that can go on, and the blocking pool
\* runs every closure handed to interact: a handler that was given a
\* connection goes on to its end, and a permit that is free goes to the
\* first waiter.
FairPool ==
    \A r \in Requests : WF_vars(db_pool_get(r)) /\ WF_vars(interact(r))

SpecPoolFair == Init /\ [][NextPool]_vars /\ FairPool

----------------------------------------------------------------------------
\* The flash cookie of one client.  A handler that answers with
\* (flash.success(..), Redirect) or (flash.warning(..), Redirect) sets the
\* cookie to the message it pushed on its own Flash, which starts empty:
\* what the cookie had is replaced.  page(body, flashes) renders the
\* incoming flashes and returns IncomingFlashes with the markup, which
\* removes the cookie.  Any other response leaves the cookie as it is.

\* The cookie after the response.
set_cookie(incoming, response) ==
    IF response.kind = "redirect" THEN Some(response.flash)
    ELSE IF response.kind = "page" THEN None
    ELSE incoming

\* The div.flash elements of the response.
rendered(incoming, response) ==
    IF response.kind = "page" THEN incoming ELSE None

\* The client sends its cookie with the request and keeps what the response
\* sets.
with_cookie ==
    /\ cookie' = set_cookie(cookie, resp')
    /\ displayed' = rendered(cookie, resp')
    /\ UNCHANGED <<phase, held, available>>

NextFlash ==
    \/ \E form \in LibForms : next_id <= MaxId /\ contacts_new_post(form) /\ with_cookie
    \/ \E form \in BinForms : main_contacts_new_post(form) /\ with_cookie
    \/ \E id \in Ids, form \in LibForms : contacts_edit_post(id, form) /\ with_cookie
    \/ \E id \in Ids, form \in BinForms : main_contacts_edit_post(id, form) /\ with_cookie
    \/ \E id \in Ids, t \in DeleteTriggers : contacts_delete(id, t) /\ with_cookie
    \/ \E ids \in SUBSET Ids : contacts_delete_all(ids) /\ with_cookie
    \/ \E q \in Queries, t \in ListTriggers : contacts_get(q, None, t) /\ with_cookie
    \/ \E id \in Ids : contacts_view(id, "none") /\ with_cookie
    \/ \E id \in Ids : contacts_edit_get(id, "none") /\ with_cookie
    \/ contacts_count /\ with_cookie
    \/ \E id \in Ids, email \in Emails : contacts_email_get(id, email) /\ with_cookie

SpecFlash == Init /\ [][NextFlash]_vars

----------------------------------------------------------------------------
\* Validation.

\* The key under which the running program files a field's error.
error_key(field) == IF build = "lib" THEN field ELSE main_error_key(field)

\* C1: when to_valid rejects its input, the errors have an entry for a field
\* exactly when the field is None or, for email_address alone, the empty
\* string, and no entry under any other key; an input whose email_address is
\* None or the empty string is rejected with "Missing email address" under
\* email_address, the same text in both cases.
C1_ErrorEntries ==
    resp.kind = "to_valid" =>
        LET p == resp.pending
            r == resp.result
            missing(f) ==
                \/ is_none(p[f])
                \/ (f = "email_address" /\ p[f] = Some(<<>>))
        IN /\ ~r.ok =>
                /\ \A f \in Fields : (error_key(f) \in DOMAIN r.errors) <=> missing(f)
                /\ DOMAIN r.errors \subseteq {error_key(f) : f \in Fields}
           /\ missing("email_address") =>
                /\ ~r.ok
                /\ r.errors[error_key("email_address")] = "Missing email address"

\* A rejected input with an empty email_address, no phone and an empty
\* first_name.
C1_Witness ==
    /\ resp.kind = "to_valid"
    /\ ~resp.result.ok
    /\ resp.pending.email_address = Some(<<>>)
    /\ is_none(resp.pending.phone)
    /\ resp.pending.first_name = Some(<<>>)

\* Whether the running program's validation turns the form body down.
validation_fails(form) ==
    IF build = "lib"
    THEN ~Form_to_valid(Form_deserialize(form).pending).ok
    ELSE /\ main_deserialize(form).ok
         /\ ~main_to_valid(main_deserialize(form).pending).ok

\* C2: a create or edit submission that fails validation leaves the table as
\* it was and is answered with the form page, not with a redirect.
C2_FailedValidationWritesNothing ==
    [][(/\ req'.handler \in {"contacts_new_post", "contacts_edit_post"}
        /\ validation_fails(req'.form))
       => /\ contacts' = contacts
          /\ resp'.kind = "page"
          /\ resp'.page \in {"new_contact_form", "edit_contact_form"}]_vars

\* An edit of a persisted contact that failed validation.
C2_Witness ==
    /\ req.handler = "contacts_edit_post"
    /\ req.id \in DOMAIN contacts
    /\ validation_fails(req.form)
    /\ resp.kind = "page"

\* C3: to_valid returns a valid record only when all four fields it was
\* given are present and non-empty.
C3_ValidOnlyIfAllNonEmpty ==
    (resp.kind = "to_valid" /\ resp.result.ok) =>
        \A f \in Fields :
            is_some(req.input[f]) /\ unwrap(req.input[f]) # <<>>

\* C4: every persisted contact has all four text fields non-empty.
C4_PersistedFieldsNonEmpty ==
    \A id \in DOMAIN contacts : \A f \in Fields : contacts[id][f] # <<>>

----------------------------------------------------------------------------
\* Create and update.

\* C5: a creation form with exactly the inputs of the rendered form, all
\* non-empty, is answered with the success redirect to the list, and the
\* table then holds a contact with the four submitted values.
C5_HtmlFormCreates ==
    (/\ req.handler = "contacts_new_post"
     /\ DOMAIN req.form = HtmlInputs
     /\ \A k \in HtmlInputs : req.form[k] # <<>>)
    => /\ resp.kind = "redirect"
       /\ resp.to = "/contacts"
       /\ resp.flash.level = "success"
       /\ \E id \in DOMAIN contacts :
            contacts[id] = ContactAttributes(req.form["first_name"],
                                             req.form["last_name"],
                                             req.form["phone"],
                                             req.form["email_address"])

\* Whether the request is a create the running program does not turn down
\* for its values.
create_passes(r) ==
    \/ r.handler = "new_contact"
    \/ /\ r.handler = "contacts_new_post"
       /\ ~validation_fails(r.form)
       /\ (build = "bin" => main_deserialize(r.form).ok)

\* C6: every create that passes validation succeeds and adds exactly one
\* contact under an identifier no contact had.
C6_CreateAssignsFreshId ==
    [][create_passes(req')
       => /\ resp'.kind \in {"redirect", "json"}
          /\ \E id \in Ids \cup ListIds :
                /\ id \notin DOMAIN contacts
                /\ DOMAIN contacts' = DOMAIN contacts \cup {id}]_vars

\* C7: an update, by the edit form or by PUT, leaves the identifiers of the
\* contacts as they were, and a PUT that succeeds leaves the body's values
\* under the path's id, whatever id the body names.
C7_UpdateKeepsIds ==
    [][req'.handler \in {"contacts_edit_post", "update_contact"}
       => /\ DOMAIN contacts' = DOMAIN contacts
          /\ (req'.handler = "update_contact" /\ resp'.kind = "json")
                => /\ req'.id \in DOMAIN contacts'
                   /\ contacts'[req'.id] = req'.body.attributes
                   /\ resp'.contact.id = req'.id]_vars

\* A PUT that succeeded with a body id other than the path's, beside
\* another contact.
C7_Witness ==
    /\ req.handler = "update_contact"
    /\ resp.kind = "json"
    /\ req.body.id # req.id
    /\ req.body.id \in DOMAIN contacts
    /\ contacts[req.id] = req.body.attributes

----------------------------------------------------------------------------
\* List and search.

\* C8: without a query, the answer is the contacts at positions page * 10 to
\* page * 10 + 9 of the order by ascending identifier.
C8_PageIsTenthSlice ==
    (req.handler = "contacts" /\ is_none(req.query)) =>
        LET page_number == IF is_none(req.page) THEN 0 ELSE unwrap(req.page)
            sorted == SortedIds(DOMAIN contacts)
        IN resp.ids = IF page_number = u32_MAX
                      THEN <<>>
                      ELSE SubSeq(sorted, page_number * PageSize + 1,
                                  Min(page_number * PageSize + PageSize, Len(sorted)))

\* C9: GET /contacts answers with at most 10 contacts.
C9_AtMostTen ==
    (req.handler = "contacts" /\ resp # Panicked) => Cardinality(resp.rows) <= PageSize

\* q occurs in s at some position, letter case ignored.
ContainsCI(s, q) ==
    \E k \in 0..(Len(s) - Len(q)) :
        SubSeq(LowerStr(s), k + 1, k + Len(q)) = LowerStr(q)

\* C10: a search returns every contact whose first or last name has the
\* query in it at some position, letter case ignored.
C10_SubstringFound ==
    (req.handler = "contacts" /\ is_some(req.query)) =>
        \A i \in DOMAIN contacts :
            (\/ ContainsCI(contacts[i].first_name, unwrap(req.query))
             \/ ContainsCI(contacts[i].last_name, unwrap(req.query)))
            => Contact(contacts, i) \in resp.rows

\* C11: a search returns only contacts whose first or last name has the
\* query in it, so a query that occurs in no name is answered with no
\* contact, whatever the phones and email addresses hold.
C11_SearchMatchesNamesOnly ==
    (req.handler = "contacts" /\ is_some(req.query)) =>
        \A r \in resp.rows :
            \/ ContainsCI(r.attributes.first_name, unwrap(req.query))
            \/ ContainsCI(r.attributes.last_name, unwrap(req.query))

----------------------------------------------------------------------------
\* Retrieve, update, delete.

\* C13: when the pool and the database work, retrieving an identifier that
\* is not persisted gives the not-found outcome (404 "Could not find contact"
\* on the API, the redirect to the list with a warning on the view and edit
\* pages), and retrieving a persisted one gives that contact's data.
C13_NotFoundIffNotPersisted ==
    /\ req.handler = "get_contact" =>
          IF req.id \in DOMAIN contacts
          THEN /\ resp.status = 200
               /\ resp.contact = Contact(contacts, req.id)
          ELSE resp = Text(404, "Could not find contact")
    /\ (req.handler \in {"contacts_view", "contacts_edit_get"} /\ req.fault = "none") =>
          IF req.id \in DOMAIN contacts
          THEN /\ resp.kind = "page"
               /\ resp.id = Some(req.id)
               /\ req.handler = "contacts_view" => resp.contact = Contact(contacts, req.id)
               /\ req.handler = "contacts_edit_get" => resp.values = contacts[req.id]
          ELSE /\ resp.kind = "redirect"
               /\ resp.to = "/contacts"
               /\ resp.flash = [level |-> "warning", message |-> "Could not find contact"]

\* The view page was asked for an identifier no contact has, beside a
\* contact, and the redirect was the answer.
C13_Witness ==
    /\ req.handler = "contacts_view"
    /\ req.fault = "none"
    /\ req.id \notin DOMAIN contacts
    /\ contacts # <<>>
    /\ resp.kind = "redirect"

\* The four values of an edit or creation form, as the inputs of the
\* rendered form name them.
submitted(form) ==
    ContactAttributes(form["first_name"], form["last_name"], form["phone"],
                      form["email_address"])

C15_DeletedStaysGone ==
    [][/\ req'.handler \in {"contacts_delete", "delete_contact"}
            => req'.id \notin DOMAIN contacts'
       /\ req'.handler \notin {"contacts_new_post", "new_contact"}
            => DOMAIN contacts' \subseteq DOMAIN contacts
       /\ (req'.handler = "get_contact" /\ req'.id \notin DOMAIN contacts')
            => resp' = Text(404, "Could not find contact")
       /\ (/\ req'.handler \in {"contacts_view", "contacts_edit_get"}
           /\ req'.id \notin DOMAIN contacts')
            => resp' = NotFoundRedirect
       /\ req'.handler \in {"contacts", "get_contacts"}
            => \A r \in resp'.rows :
                  r.id \in DOMAIN contacts' /\ r = Contact(contacts', r.id)
       /\ req'.handler = "contacts_count"
            => resp'.count = Cardinality(DOMAIN contacts')]_vars

\* Contact 1, which the sequence gave out, was deleted, and the API was
\* then asked for it and answered 404.
C15_Witness ==
    /\ build = "lib"
    /\ next_id = 2
    /\ 1 \notin DOMAIN contacts
    /\ req.handler = "get_contact"
    /\ req.id = 1
    /\ resp.status = 404

\* The identifiers a delete request names.
deleted_ids(r) ==
    IF r.handler = "contacts_delete_all" THEN r.ids ELSE {r.id}

\* C16: a delete is answered with its success response whether or not a
\* contact has the identifier (200 "Successfully deleted" on the API, the
\* redirect of the bulk delete, the redirect or empty body of the HTML
\* delete), and a delete that names no persisted identifier, the empty set
\* included, leaves the table as it was.
C16_DeleteOfAbsentSucceeds ==
    [][req'.handler \in {"contacts_delete", "delete_contact", "contacts_delete_all"}
       => /\ resp'.kind # "error"
          /\ req'.handler = "delete_contact"
                => resp' = Text(200, "Successfully deleted")
          /\ req'.handler = "contacts_delete_all"
                => resp' = Redirect("/contacts", None, "success", "Deleted contacts!")
          /\ req'.handler = "contacts_delete"
                => \/ /\ resp'.kind = "redirect"
                      /\ resp'.to = "/contacts"
                      /\ resp'.flash.level = "success"
                   \/ resp' = Text(200, "")
          /\ deleted_ids(req') \cap DOMAIN contacts = {} => contacts' = contacts]_vars

\* The HTML delete of identifier 0, which lib gives to no contact, beside a
\* contact, answered with the redirect.
C16_Witness ==
    /\ build = "lib"
    /\ req.handler = "contacts_delete"
    /\ req.id = 0
    /\ contacts # <<>>
    /\ resp.kind = "redirect"

\* C17: a bulk delete removes, in its one step, the contacts whose identifier
\* is among the submitted ones and no other, leaves the others as they were,
\* and is answered with the success redirect to the list.
C17_BulkDeleteRemovesExactlySelected ==
    [][req'.handler = "contacts_delete_all"
       => /\ DOMAIN contacts' = DOMAIN contacts \ req'.ids
          /\ \A i \in DOMAIN contacts' : contacts'[i] = contacts[i]
          /\ resp' = Redirect("/contacts", None, "success", "Deleted contacts!")]_vars

\* Contact 1, which the sequence gave out, was selected with an identifier
\* no contact had, and no contact is left.
C17_Witness ==
    /\ build = "lib"
    /\ next_id = 2
    /\ req.handler = "contacts_delete_all"
    /\ req.ids = {0, 1}
    /\ contacts = <<>>
    /\ resp.kind = "redirect"

\* C18: DELETE /contacts/:id removes the contact whatever HX-Trigger holds;
\* the answer is the success redirect to the list exactly when the header is
\* "delete-btn", and an empty body when it is absent or has another value.
C18_DeleteShapeByTrigger ==
    [][req'.handler = "contacts_delete"
       => /\ contacts' = delete_rows(contacts, {req'.id})
          /\ IF req'.trigger = Some("delete-btn")
             THEN /\ resp'.kind = "redirect"
                  /\ resp'.to = "/contacts"
                  /\ resp'.flash.level = "success"
             ELSE resp' = Text(200, "")]_vars

\* Contact 1, which the sequence gave out, deleted by a request with another
\* HX-Trigger value and answered with the empty body.
C18_Witness ==
    /\ build = "lib"
    /\ next_id = 2
    /\ req.handler = "contacts_delete"
    /\ req.id = 1
    /\ is_some(req.trigger)
    /\ req.trigger # Some("delete-btn")
    /\ contacts = <<>>
    /\ resp = Text(200, "")

----------------------------------------------------------------------------
\* The email probe.

\* C19: the probe answers "Email cannot be empty" to an absent or empty
\* email_address, "Email must be unique" to a candidate that is the
\* email_address of a contact, and an empty body to every other candidate.
C19_EmailProbe ==
    req.handler = "contacts_email_get" =>
        resp = IF unwrap_or_default(req.email_address) = <<>>
               THEN Text(200, "Email cannot be empty")
               ELSE IF \E i \in DOMAIN contacts :
                          contacts[i].email_address = unwrap(req.email_address)
               THEN Text(200, "Email must be unique")
               ELSE Text(200, "")

----------------------------------------------------------------------------
\* Failures.

\* C20: a request that met a failure of the pool, of the statement or of
\* interact, in whichever handler, is answered 500 with the static body.
C20_FailureIsInternalError ==
    (\/ req.handler = "failed"
     \/ /\ req.handler \in {"contacts_view", "contacts_edit_get"}
        /\ req.fault # "none")
    => resp = InternalError

----------------------------------------------------------------------------
\* Not-found and internal errors.

\* C21: a request for an identifier no contact has, whose pool and database
\* work, is not answered with the 500 response, and GET and PUT of the API
\* answer it 404.
C21_NotFoundIsNotInternalError ==
    [][(/\ req'.handler \in {"get_contact", "update_contact", "delete_contact",
                             "contacts_view", "contacts_edit_get",
                             "contacts_edit_post", "contacts_delete"}
        /\ req'.id \notin DOMAIN contacts
        /\ req'.handler \in {"contacts_view", "contacts_edit_get"}
              => req'.fault = "none")
       => /\ resp' # InternalError
          /\ req'.handler \in {"get_contact", "update_contact"}
                => resp'.status = 404]_vars

----------------------------------------------------------------------------
\* Uniqueness of the email address, frames, atomic writes.

\* C25: no two persisted contacts have the same email_address.
C25_EmailAddressesUnique ==
    \A i, j \in DOMAIN contacts :
        contacts[i].email_address = contacts[j].email_address => i = j

\* C26: an edit POST or a PUT adds no contact, and an edit submission that
\* passes validation, for an identifier no contact has, leaves the table as
\* it was and is answered with the redirect "Updated contact!" to the view
\* page of the identifier.
C26_EditOfAbsentChangesNothing ==
    [][/\ req'.handler \in {"contacts_edit_post", "update_contact"}
            => DOMAIN contacts' \subseteq DOMAIN contacts
       /\ (/\ req'.handler = "contacts_edit_post"
           /\ req'.id \notin DOMAIN contacts
           /\ HtmlInputs \subseteq DOMAIN req'.form
           /\ ~validation_fails(req'.form))
            => /\ contacts' = contacts
               /\ resp' = Redirect("/contacts/:id", Some(req'.id), "success",
                                   "Updated contact!")]_vars

\* C28: the probe gives the candidate that is the address of the contact in
\* its path the answer "Email must be unique", as it does under every other
\* identifier: the answer to a candidate that is a contact's address does
\* not depend on the path.
C28_ProbeIgnoresPathId ==
    (/\ req.handler = "contacts_email_get"
     /\ is_some(req.email_address)
     /\ unwrap(req.email_address) # <<>>
     /\ \E i \in DOMAIN contacts : contacts[i].email_address = unwrap(req.email_address))
    => resp = Text(200, "Email must be unique")

\* The probe was asked, under a contact's identifier, for the address that
\* contact has, no other contact having it.
C28_Witness ==
    /\ req.handler = "contacts_email_get"
    /\ DOMAIN contacts = {req.id}
    /\ req.email_address = Some(contacts[req.id].email_address)
    /\ resp = Text(200, "Email must be unique")

\* The values an edit request carries: those of its form, or the four text
\* values of its body.
sent_values(r) ==
    IF r.handler = "update_contact"
    THEN {r.body.attributes[f] : f \in Fields}
    ELSE {r.form[k] : k \in DOMAIN r.form}

\* C29: each edit, delete and bulk delete is one step on the store.  After
\* it, a contact it addresses is absent, or as it was, or has all four
\* values from that one request (for a JSON edit, the four values of the
\* body), never some values of the request and some of an earlier one; and
\* an identifier that had no contact before an edit or a delete has none
\* after it.
C29_WritesAreWholeRecords ==
    [][req'.handler \in {"contacts_edit_post", "update_contact", "contacts_delete",
                         "delete_contact", "contacts_delete_all"}
       => \A id \in deleted_ids(req') :
            /\ id \notin DOMAIN contacts => id \notin DOMAIN contacts'
            /\ id \in DOMAIN contacts' =>
                 \/ contacts'[id] = contacts[id]
                 \/ /\ req'.handler = "update_contact"
                    /\ contacts'[id] = req'.body.attributes
                 \/ /\ req'.handler = "contacts_edit_post"
                    /\ \A f \in Fields : contacts'[id][f] \in sent_values(req')]_vars

\* An edit was written: the contact of its identifier has the values of
\* the request, a phone among them.
C29_Witness ==
    /\ req.handler \in {"contacts_edit_post", "update_contact"}
    /\ req.id \in DOMAIN contacts
    /\ resp.kind \in {"redirect", "json"}
    /\ \A f \in Fields : contacts[req.id][f] \in sent_values(req)
    /\ contacts[req.id].phone = <<"1">>
    /\ <<>> \notin sent_values(req)

\* C30: an edit or a delete of one identifier leaves every contact with
\* another identifier as it was, and a request that only reads (list,
\* search, count, view, the forms, the email probe, the API reads) leaves
\* every contact as it was.
C30_OnlyTheAddressedContactChanges ==
    [][/\ req'.handler \in {"contacts_edit_post", "update_contact", "contacts_delete",
                            "delete_contact"}
           => \A i \in (DOMAIN contacts \cup DOMAIN contacts') \ {req'.id} :
                 /\ i \in DOMAIN contacts
                 /\ i \in DOMAIN contacts'
                 /\ contacts'[i] = contacts[i]
       /\ req'.handler \in {"contacts", "contacts_count", "contacts_view",
                            "contacts_edit_get", "contacts_email_get",
                            "get_contacts", "get_contact"}
           => contacts' = contacts]_vars


----------------------------------------------------------------------------
\* The "load more" link of the list page.

\* C27: for every page value, with or without a query, the full list page is
\* rendered without page + 1 leaving 32 bits: the handler answers, the link
\* is there exactly when at least 10 contacts were returned, and its page
\* number is the request's plus one.
C27_LoadMoreWithoutOverflow ==
    req.handler = "contacts" =>
        LET page_number == IF is_none(req.page) THEN 0 ELSE unwrap(req.page)
        IN /\ resp # Panicked
           /\ resp.kind = "page" =>
                /\ is_some(resp.load_more) <=> Cardinality(resp.rows) >= PageSize
                /\ is_some(resp.load_more) =>
                     /\ page_number # u32_MAX
                     /\ unwrap(resp.load_more) = page_number + 1


----------------------------------------------------------------------------
\* The connection pool.

RECURSIVE Sum(_, _)
\* The sum of f over the set S.
Sum(f, S) ==
    IF S = {} THEN 0
    ELSE LET x == CHOOSE y \in S : TRUE IN f[x] + Sum(f, S \ {x})

\* C22: at most max_size connections are in use, a request in flight holds
\* at most one, a request that has finished holds none, and the free and
\* the borrowed connections together are always max_size.
C22_ConnectionsAreReturned ==
    /\ Sum(held, Requests) <= max_size
    /\ \A r \in Requests : held[r] <= 1
    /\ \A r \in Requests : phase[r] = "done" => held[r] = 0
    /\ available + Sum(held, Requests) = max_size

\* Every connection is out, a request waits for one, and another request
\* cannot be holding one.
C22_Witness ==
    /\ available = 0
    /\ Sum(held, Requests) = max_size
    /\ \E r \in Requests : phase[r] = "waiting" /\ held[r] = 0

\* The steps of request r that need no new request to arrive.
goes_on(r) == db_pool_get(r) \/ db_pool_get_fails(r) \/ interact(r)

----------------------------------------------------------------------------
\* Flash notifications.

\* C24: a flash that a redirect set is rendered by the next full page the
\* client gets and by no page after it, and until then it stays with the
\* client: a full page renders the pending flash and ends it, and any
\* other response renders nothing and leaves a pending flash pending.
C24_FlashDisplayedOnce ==
    [][/\ resp'.kind = "page" => displayed' = cookie /\ cookie' = None
       /\ resp'.kind # "page" =>
            /\ displayed' = None
            /\ cookie # None => cookie' = cookie
            /\ (cookie = None /\ resp'.kind = "redirect")
                  => cookie' = Some(resp'.flash)]_vars

====
